---- MODULE Spec2Model ----
(***************************************************************************)
(* ONNX model parser / visualiser.                                         *)
(*   App.handleFileUpload + parseONNXModelComplete  (RawCanvas.jsx 453-563)*)
(*   ModelViewer graph builder and render           (ModelViewer.jsx)      *)
(*   ModernCanvas layout effect and pan/zoom state  (RawCanvas.jsx 47-445) *)
(*                                                                         *)
(* JavaScript null/undefined is the record NULL.  Numbers that are         *)
(* fractional in the program (the canvas scale, the pan offset) are held   *)
(* in thousandths.                                                         *)
(***************************************************************************)
EXTENDS Integers, Sequences, FiniteSets, TLC

NULL == [tag |-> "null"]

\* Bytes that do not conform to onnx.ModelProto: ModelProto.decode throws.
CORRUPT == [tag |-> "corrupt"]

(***************************************************************************)
(* Bounds of the explored input space.                                     *)
(***************************************************************************)
MaxNodes == 2       \* operator nodes per decoded model
MaxRefs == 3        \* tensor references (inputs + outputs) per decoded model
MaxOps == 3         \* operator nodes per model in the histogram family
MaxUploads == 2     \* uploads the user starts in one session
MaxSupplies == 2    \* modelData values handed to the canvas
MaxGestures == 14   \* gestures in a session that explores pan and zoom
FewGestures == 2    \* gestures in a session that explores layout

\* Tensor names; "" is what protobufjs yields for an omitted optional tensor.
TensorNames == {"", "x", "y"}

\* node.name of the node at position i: exporters either name every node or
\* none ("" is the absent field under defaults: true).
NodeName(named, i) == IF named THEN "n" \o ToString(i) ELSE ""

\* node.opType values ("" when the field is absent).
OpTypes == {"", "Conv", "Relu", "constructor"}

RECURSIVE SeqsOfLen(_, _)
SeqsOfLen(S, n) ==
    IF n = 0 THEN {<<>>}
    ELSE {<<e>> \o s : e \in S, s \in SeqsOfLen(S, n - 1)}

\* One decoded NodeProto (ModelProto.toObject with defaults and arrays:
\* every field is present, repeated fields are arrays).
RawNode(op, nm, ins, outs) ==
    [opType |-> op, name |-> nm, input |-> ins, output |-> outs,
     attribute |-> <<>>]

\* Operator nodes carrying exactly k tensor references.
NodesWithRefs(k) ==
    UNION {{RawNode("Conv", "", ins, outs) :
                ins \in SeqsOfLen(TensorNames, i),
                outs \in SeqsOfLen(TensorNames, k - i)} : i \in 0..k}

\* Sequences of n operator nodes carrying at most r references in total.
RECURSIVE NodeSeqs(_, _)
NodeSeqs(n, r) ==
    IF n = 0 THEN {<<>>}
    ELSE UNION {{<<nd>> \o rest : nd \in NodesWithRefs(k),
                                  rest \in NodeSeqs(n - 1, r - k)} : k \in 0..r}

\* graph.input / graph.output entries (ValueInfoProto.toObject).
ValueInfo(nm) == [name |-> nm, type |-> NULL]

GraphProto(nodes, ins, outs, inits) ==
    [node |-> nodes, input |-> ins, output |-> outs, initializer |-> inits]

\* A decoded ModelProto; graph is NULL when the message carries no graph.
ModelProto(producer, g) ==
    [producerName |-> producer, producerVersion |-> "", graph |-> g]

File(nm, sz, proto) == [name |-> nm, size |-> sz, proto |-> proto]

\* Models that differ in topology.
TopologyModels ==
    {ModelProto("", GraphProto([i \in 1..Len(ns) |->
                                   [ns[i] EXCEPT !.name = NodeName(named, i)]],
                               <<>>, <<>>, <<>>)) :
        ns \in UNION {NodeSeqs(n, MaxRefs) : n \in 0..MaxNodes},
        named \in BOOLEAN}

\* Models that differ in the operator kinds of their nodes.
HistogramModels ==
    {ModelProto("", GraphProto([i \in 1..Len(ops) |->
                                   RawNode(ops[i], "", <<>>, <<>>)],
                               <<>>, <<>>, <<>>)) :
        ops \in UNION {SeqsOfLen(OpTypes, n) : n \in 0..MaxOps}}

ViewerFiles ==
    {File("m.onnx", 2048, m) : m \in TopologyModels \cup HistogramModels}

\* Spec scenario 1: one Conv consuming x, w, b and producing y.
ConvModel ==
    ModelProto("pytorch",
        GraphProto(<<RawNode("Conv", "", <<"x", "w", "b">>, <<"y">>)>>,
                   <<ValueInfo("x")>>, <<ValueInfo("y")>>, <<"w", "b">>))

\* A chain whose tensors are all declared inputs, operator outputs or outputs.
ChainModel ==
    ModelProto("",
        GraphProto(<<RawNode("Relu", "", <<"x">>, <<"h">>),
                     RawNode("Relu", "", <<"h">>, <<"y">>)>>,
                   <<ValueInfo("x")>>, <<ValueInfo("y")>>, <<>>))

EmptyGraphModel == ModelProto("", GraphProto(<<>>, <<>>, <<>>, <<>>))

NoGraphModel == ModelProto("", NULL)

\* The files the user can pick in the upload sessions.
SessionFiles ==
    {File("conv.onnx", 4096, ConvModel),
     File("chain.onnx", 1536, ChainModel),
     File("empty.onnx", 0, NoGraphModel),
     File("nonodes.onnx", 12, EmptyGraphModel),
     File("broken.onnx", 100, CORRUPT)}

(***************************************************************************)
(* parseONNXModelComplete, the part after the two awaits                   *)
(***************************************************************************)

\* Property names every object literal inherits from Object.prototype.
ObjectPrototypeKeys ==
    {"constructor", "toString", "toLocaleString", "valueOf", "hasOwnProperty",
     "isPrototypeOf", "propertyIsEnumerable", "__proto__",
     "__defineGetter__", "__defineSetter__", "__lookupGetter__",
     "__lookupSetter__"}

\* A property value of operatorFrequency: a number or a string.
Num(n) == [num |-> n]
Str(s) == [str |-> s]

\* operatorFrequency[op]: own property, else inherited, else undefined.
\* An inherited member is a function (or, for __proto__, an object); the
\* value kept here is what it stringifies to.
GetProp(obj, op) ==
    IF op \in DOMAIN obj THEN obj[op]
    ELSE IF op = "__proto__" THEN Str("[object Object]")
    ELSE IF op \in ObjectPrototypeKeys
         THEN Str("function " \o op \o "() { [native code] }")
    ELSE NULL

\* (operatorFrequency[op] || 0) + 1
Increment(v) ==
    IF v = NULL THEN Num(1)
    ELSE IF "num" \in DOMAIN v THEN Num(v.num + 1)
    ELSE Str(v.str \o "1")

\* operatorFrequency[op] = v; assigning a string to __proto__ is ignored.
SetProp(obj, op, v) ==
    IF op = "__proto__" THEN obj
    ELSE [k \in DOMAIN obj \cup {op} |-> IF k = op THEN v ELSE obj[k]]

\* The empty object literal {}.
EmptyObject == [k \in {} |-> NULL]

\* for (const node of nodes) { if (op) operatorFrequency[op] = ... }
RECURSIVE CountOperators(_, _, _)
CountOperators(nodes, i, freq) ==
    IF i > Len(nodes) THEN freq
    ELSE LET op == nodes[i].opType
         IN CountOperators(nodes, i + 1,
                IF op # ""
                THEN SetProp(freq, op, Increment(GetProp(freq, op)))
                ELSE freq)

operatorFrequencyOf(nodes) == CountOperators(nodes, 1, EmptyObject)

modelComplexity(n) ==
    IF n > 1000 THEN "High" ELSE IF n > 100 THEN "Medium" ELSE "Low"

\* `${(file.size / 1024).toFixed(2)} KB`
sizeFormatted(size) ==
    LET h == (size * 200 + 1024) \div 2048
        frac == h % 100
    IN ToString(h \div 100) \o "." \o
       (IF frac < 10 THEN "0" ELSE "") \o ToString(frac) \o " KB"

\* i => ({ name: i.name, type: i.type?.value || 'unknown' })
NameAndType(vi) ==
    [name |-> vi.name,
     type |-> IF vi.type # NULL /\ "value" \in DOMAIN vi.type
                 /\ vi.type.value # ""
              THEN vi.type.value ELSE "unknown"]

OrUnknown(s) == IF s # "" THEN s ELSE "Unknown"

\* An exception carrying a message, on its way to the nearest catch.
Throw(message) == [thrown |-> message]

Threw(outcome) == "thrown" \in DOMAIN outcome

\* The catch block: { error: err.message, parsingMethod: 'fallback' }
Failure(message) == [error |-> message, parsingMethod |-> "fallback"]

\* Catch without the try block: the exception leaves parseONNXModelComplete.
CatchNothing(outcome) == outcome

\* try { ... } catch (err) { return { error: err.message, ... } } around the
\* whole body of parseONNXModelComplete.
Catch(outcome) ==
    IF Threw(outcome) THEN Failure(outcome.thrown) ELSE outcome

\* The object returned at the end of the try block.
Summarize(file, model) ==
    LET nodes == IF model.graph # NULL THEN model.graph.node ELSE <<>>
    IN IF model.graph = NULL
       THEN Throw("Cannot read properties of null (reading 'input')")
       ELSE [file |-> [name |-> file.name, size |-> file.size,
                       sizeFormatted |-> sizeFormatted(file.size)],
             model |-> [producerName |-> OrUnknown(model.producerName),
                        producerVersion |-> OrUnknown(model.producerVersion)],
             graph |-> [inputs |-> [i \in 1..Len(model.graph.input) |->
                                       NameAndType(model.graph.input[i])],
                        outputs |-> [i \in 1..Len(model.graph.output) |->
                                       NameAndType(model.graph.output[i])],
                        nodes |-> nodes,
                        initializers |-> model.graph.initializer],
             analysis |-> [totalInputs |-> Len(model.graph.input),
                           totalOutputs |-> Len(model.graph.output),
                           totalNodes |-> Len(nodes),
                           totalInitializers |-> Len(model.graph.initializer),
                           modelComplexity |-> modelComplexity(Len(nodes)),
                           operatorFrequency |-> operatorFrequencyOf(nodes)],
             parsingMethod |-> "runtime-load"]

\* ModelProto.decode + toObject + the summary, inside the try block.
DecodeAndSummarize(file) ==
    IF file.proto = CORRUPT THEN Throw("index out of range")
    ELSE Summarize(file, file.proto)

(***************************************************************************)
(* ModelViewer: the useMemo graph builder and the render                   *)
(***************************************************************************)

sampleNodes ==
    <<[id |-> "1", type |-> "input", position |-> [x |-> 100, y |-> 100],
       data |-> [label |-> "Input"]],
      [id |-> "2", type |-> "default", position |-> [x |-> 300, y |-> 100],
       data |-> [label |-> "Process"]],
      [id |-> "3", type |-> "output", position |-> [x |-> 500, y |-> 100],
       data |-> [label |-> "Output"]]>>

sampleEdges ==
    <<[id |-> "e1-2", source |-> "1", target |-> "2", animated |-> TRUE],
      [id |-> "e2-3", source |-> "2", target |-> "3", animated |-> TRUE]>>

\* nodes = [], edges = [], nameToId = new Map(), processedInputs = new Set(),
\* uid = 1
NewBuilder ==
    [nodes |-> <<>>, edges |-> <<>>, nameToId |-> [k \in {} |-> ""],
     processedInputs |-> {}, uid |-> 1]

\* getId without the nameToId.has test: every call hands out a new id.
getIdFresh(b, name) ==
    [b EXCEPT !.nameToId = [k \in DOMAIN @ \cup {name} |->
                               IF k = name THEN "id-" \o ToString(b.uid)
                               ELSE @[k]],
              !.uid = @ + 1]

\* The builder after getId(name) ran; the id it returns is IdOf of that state.
getId(b, name) ==
    IF name \in DOMAIN b.nameToId THEN b
    ELSE [b EXCEPT !.nameToId = [k \in DOMAIN @ \cup {name} |->
                                    IF k = name THEN "id-" \o ToString(b.uid)
                                    ELSE @[k]],
                   !.uid = @ + 1]

IdOf(b, name) == b.nameToId[name]

\* input.length > 20 ? input.substring(0, 20) + "..." : input
InputLabel(input) ==
    IF Len(input) > 20 THEN SubSeq(input, 1, 20) \o "..." ELSE input

\* Body of the inner forEach of the input pass, for one input name.
AddInput(b, input) ==
    IF input \in b.processedInputs THEN b
    ELSE LET b1 == getId(b, input)
         IN [b1 EXCEPT
               !.nodes = Append(@,
                   [id |-> IdOf(b1, input), type |-> "input",
                    position |-> [x |-> 50,
                                  y |-> 50 + Cardinality(b.processedInputs) * 100],
                    data |-> [label |-> InputLabel(input)]]),
               !.processedInputs = @ \cup {input}]

RECURSIVE AddInputs(_, _, _)
AddInputs(b, inputs, j) ==
    IF j > Len(inputs) THEN b
    ELSE AddInputs(AddInput(b, inputs[j]), inputs, j + 1)

\* "Create input nodes first"
RECURSIVE InputPass(_, _, _)
InputPass(b, rawNodes, i) ==
    IF i > Len(rawNodes) THEN b
    ELSE InputPass(AddInputs(b, rawNodes[i].input, 1), rawNodes, i + 1)

\* outputName with the first two alternatives swapped.
outputNameByName(node, index) ==
    IF node.name # "" THEN node.name
    ELSE IF Len(node.output) > 0 /\ node.output[1] # "" THEN node.output[1]
    ELSE "node-" \o ToString(index)

\* node.output?.[0] || node.name || `node-${index}`   (index is 0-based)
outputName(node, index) ==
    IF Len(node.output) > 0 /\ node.output[1] # "" THEN node.output[1]
    ELSE IF node.name # "" THEN node.name
    ELSE "node-" \o ToString(index)

\* node.opType || node.op_type || node.type || `Node ${index}`
OperatorLabel(node, index) ==
    IF node.opType # "" THEN node.opType ELSE "Node " \o ToString(index)

\* Body of the inner forEach of the operator pass, for one input name.
AddEdge(b, input, nodeId) ==
    LET b1 == getId(b, input)
        inputId == IdOf(b1, input)
    IN [b1 EXCEPT !.edges = Append(@,
           [id |-> "e-" \o inputId \o "-" \o nodeId,
            source |-> inputId, target |-> nodeId, animated |-> TRUE])]

RECURSIVE AddEdges(_, _, _, _)
AddEdges(b, inputs, j, nodeId) ==
    IF j > Len(inputs) THEN b
    ELSE AddEdges(AddEdge(b, inputs[j], nodeId), inputs, j + 1, nodeId)

\* Body of the outer forEach of the operator pass, for the node at index.
AddOperator(b, node, index) ==
    LET b1 == getId(b, outputName(node, index))
        nodeId == IdOf(b1, outputName(node, index))
        b2 == [b1 EXCEPT !.nodes = Append(@,
                  [id |-> nodeId, type |-> "default",
                   position |-> [x |-> 300 + (index % 4) * 200,
                                 y |-> 100 + (index \div 4) * 150],
                   data |-> [label |-> OperatorLabel(node, index)]])]
    IN AddEdges(b2, node.input, 1, nodeId)

\* "Create operation nodes and edges"
RECURSIVE OperatorPass(_, _, _)
OperatorPass(b, rawNodes, i) ==
    IF i > Len(rawNodes) THEN b
    ELSE OperatorPass(AddOperator(b, rawNodes[i], i - 1), rawNodes, i + 1)

\* modelData?.graph?.nodes is an array
HasGraphNodes(data) == data # NULL /\ "graph" \in DOMAIN data

\* The value of the useMemo for a given modelData prop.
BuildGraph(data) ==
    IF ~HasGraphNodes(data)
    THEN [nodes |-> sampleNodes, edges |-> sampleEdges]
    ELSE LET b == OperatorPass(InputPass(NewBuilder, data.graph.nodes, 1),
                               data.graph.nodes, 1)
         IN [nodes |-> b.nodes, edges |-> b.edges]

\* The outcome of rendering ModelViewer with a given modelData prop: the
\* placeholder for null, a TypeError where modelData.graph is undefined
\* (modelData.graph.nodes.length in the Graph Summary), else the full view.
RenderViewer(data) ==
    IF data = NULL THEN "placeholder"
    ELSE IF "graph" \notin DOMAIN data THEN "threw"
    ELSE "rendered"

\* The canvas scale in thousandths: useState(1) and the clamp range of
\* handleWheel and the zoom buttons.
ScaleOne == 1000
ScaleMin == 100
ScaleMax == 3000

(***************************************************************************)
(* ModernCanvas: layoutGraph up to the await                               *)
(***************************************************************************)
NODE_WIDTH == 200
NODE_HEIGHT == 120
INPUT_NODE_WIDTH == 140
INPUT_NODE_HEIGHT == 80
OUTPUT_NODE_WIDTH == 140
OUTPUT_NODE_HEIGHT == 80

\* node.output[0] of a node without outputs, as an element id.
UNDEFINED == "<undefined>"

\* node.input.find((i) => i.includes(word)) || fallback
RECURSIVE Includes(_, _, _)
Includes(str, word, from) ==
    IF from + Len(word) - 1 > Len(str) THEN FALSE
    ELSE IF SubSeq(str, from, from + Len(word) - 1) = word THEN TRUE
    ELSE Includes(str, word, from + 1)

RECURSIVE FindIncluding(_, _, _, _)
FindIncluding(inputs, word, j, fallback) ==
    IF j > Len(inputs) THEN fallback
    ELSE IF Includes(inputs[j], word, 1) THEN inputs[j]
    ELSE FindIncluding(inputs, word, j + 1, fallback)

\* ints.join(U+00D7); the multiplication sign is written x here, and the
\* en-dash placeholder of getAttrValue is written -.
RECURSIVE Join(_, _)
Join(ints, j) ==
    IF j > Len(ints) THEN ""
    ELSE ToString(ints[j]) \o (IF j < Len(ints) THEN "x" ELSE "") \o
         Join(ints, j + 1)

\* attrs.find((a) => a.name === name)?.ints?.join('x') || '-'
RECURSIVE getAttrValue(_, _, _)
getAttrValue(attrs, name, j) ==
    IF j > Len(attrs) THEN "-"
    ELSE IF attrs[j].name = name
         THEN (IF Join(attrs[j].ints, 1) # "" THEN Join(attrs[j].ints, 1)
               ELSE "-")
    ELSE getAttrValue(attrs, name, j + 1)

getConvDetails(node) ==
    <<"Weight: " \o FindIncluding(node.input, "weight", 1, "W"),
      "Bias: " \o FindIncluding(node.input, "bias", 1, "B"),
      "Dilations: " \o getAttrValue(node.attribute, "dilations", 1),
      "Kernel: " \o getAttrValue(node.attribute, "kernel_shape", 1),
      "Padding: " \o getAttrValue(node.attribute, "pads", 1),
      "Strides: " \o getAttrValue(node.attribute, "strides", 1)>>

\* node.output[0]
FirstOutput(node) == IF Len(node.output) > 0 THEN node.output[1] ELSE UNDEFINED

\* The demo model laid out while no model is supplied.
demoData ==
    [graph |->
      [inputs |-> <<[name |-> "input_tensor"]>>,
       outputs |-> <<[name |-> "output_tensor"]>>,
       nodes |->
        <<[opType |-> "Conv",
           input |-> <<"input_tensor", "conv_weight", "conv_bias">>,
           output |-> <<"conv_out">>,
           attribute |-> <<[name |-> "kernel_shape", ints |-> <<3, 3>>],
                           [name |-> "strides", ints |-> <<1, 1>>],
                           [name |-> "pads", ints |-> <<1, 1>>],
                           [name |-> "dilations", ints |-> <<1, 1>>]>>],
          [opType |-> "ReLU", input |-> <<"conv_out">>,
           output |-> <<"relu_out">>, attribute |-> <<>>],
          [opType |-> "MaxPool", input |-> <<"relu_out">>,
           output |-> <<"pool_out">>,
           attribute |-> <<[name |-> "kernel_shape", ints |-> <<2, 2>>],
                           [name |-> "strides", ints |-> <<2, 2>>]>>],
          [opType |-> "Linear", input |-> <<"pool_out", "linear_weight">>,
           output |-> <<"output_tensor">>, attribute |-> <<>>]>>]]

\* data.graph.nodes.map(...)
allNodes(data) ==
    [i \in 1..Len(data.graph.nodes) |->
        LET node == data.graph.nodes[i]
        IN [id |-> FirstOutput(node),
            width |-> NODE_WIDTH, height |-> NODE_HEIGHT,
            labels |-> IF node.opType = "Conv"
                       THEN <<node.opType>> \o getConvDetails(node)
                       ELSE <<node.opType>>,
            nodeType |-> node.opType]]

\* data.graph.inputs.map(...)
inputsOf(data) ==
    [i \in 1..Len(data.graph.inputs) |->
        [id |-> data.graph.inputs[i].name,
         width |-> INPUT_NODE_WIDTH, height |-> INPUT_NODE_HEIGHT,
         labels |-> <<data.graph.inputs[i].name>>, nodeType |-> "Input"]]

\* data.graph.outputs.map(...)
outputsOf(data) ==
    [i \in 1..Len(data.graph.outputs) |->
        [id |-> data.graph.outputs[i].name,
         width |-> OUTPUT_NODE_WIDTH, height |-> OUTPUT_NODE_HEIGHT,
         labels |-> <<data.graph.outputs[i].name>>, nodeType |-> "Output"]]

allChildren(data) == inputsOf(data) \o allNodes(data) \o outputsOf(data)

\* node.input.forEach(input => edges.push(...)) for one node
InputEdges(node) ==
    [j \in 1..Len(node.input) |->
        [id |-> node.input[j] \o "->" \o
                (IF Len(node.output) > 0 THEN node.output[1] ELSE "undefined"),
         sources |-> <<node.input[j]>>,
         targets |-> <<FirstOutput(node)>>]]

RECURSIVE NodeEdges(_, _)
NodeEdges(rawNodes, i) ==
    IF i > Len(rawNodes) THEN <<>>
    ELSE InputEdges(rawNodes[i]) \o NodeEdges(rawNodes, i + 1)

\* data.graph.nodes.find(n => n.output.includes(name)), 0 when there is none
RECURSIVE FindProducer(_, _, _)
FindProducer(rawNodes, name, i) ==
    IF i > Len(rawNodes) THEN 0
    ELSE IF \E j \in 1..Len(rawNodes[i].output) : rawNodes[i].output[j] = name
         THEN i
    ELSE FindProducer(rawNodes, name, i + 1)

\* data.graph.outputs.forEach(...)
RECURSIVE OutputEdges(_, _)
OutputEdges(data, i) ==
    IF i > Len(data.graph.outputs) THEN <<>>
    ELSE LET name == data.graph.outputs[i].name
             p == FindProducer(data.graph.nodes, name, 1)
         IN (IF p = 0 THEN <<>>
             ELSE <<[id |-> data.graph.nodes[p].output[1] \o "->" \o name,
                     sources |-> <<data.graph.nodes[p].output[1]>>,
                     targets |-> <<name>>]>>)
            \o OutputEdges(data, i + 1)

\* The argument of elk.layout.
ElkGraph(data) ==
    [id |-> "root",
     children |-> allChildren(data),
     edges |-> NodeEdges(data.graph.nodes, 1) \o OutputEdges(data, 1)]

ChildIds(g) == {g.children[i].id : i \in 1..Len(g.children)}

\* elk.layout rejects a graph in which an element has no id or an edge names
\* a source or target that is not a child ("Referenced shape does not exist").
ElkAccepts(g) ==
    /\ UNDEFINED \notin ChildIds(g)
    /\ \A i \in 1..Len(g.edges) :
          /\ g.edges[i].sources[1] \in ChildIds(g)
          /\ g.edges[i].targets[1] \in ChildIds(g)

(***************************************************************************)
(* State                                                                   *)
(***************************************************************************)
VARIABLES
    disk,           \* the files the user can pick
    quota,          \* how many uploads the user starts
    runs,           \* the handleFileUpload calls started so far, in order
    modelData,      \* App state
    isLoading,      \* App state
    error,          \* App state
    initialNodes,   \* ModelViewer: nodes of the useMemo
    initialEdges,   \* ModelViewer: edges of the useMemo
    flowNodes,      \* ModelViewer: useNodesState
    flowEdges,      \* ModelViewer: useEdgesState
    viewer,         \* ModelViewer: outcome of the last render
    canvasData,     \* ModernCanvas: the modelData prop
    supplies,       \* ModernCanvas: how many modelData values it was given
    graph,          \* ModernCanvas state
    scale,          \* ModernCanvas state, in thousandths
    position,       \* ModernCanvas state, in pixels
    timers,         \* ModernCanvas: pending setTimeout(layoutGraph(demoData))
    layouts,        \* ModernCanvas: elk.layout promises not yet settled
    lastLayout,     \* how the layout started for canvasData settled, if it has
    gestures,       \* canvas gestures so far
    budget,         \* how many prop values and gestures the session has
    unclamped       \* the scale the last zoom step computed before clamping

appVars == <<disk, quota, runs, modelData, isLoading, error>>
viewerVars == <<initialNodes, initialEdges, flowNodes, flowEdges, viewer>>
canvasVars == <<canvasData, supplies, graph, scale, position, timers, layouts,
                lastLayout, gestures, budget, unclamped>>
vars == <<appVars, viewerVars, canvasVars>>

\* A run of handleFileUpload: the file, where it is suspended, and what
\* parseONNXModelComplete settled with (NULL until it has).
\*   "load"   awaiting protobuf.load('/onnx.proto')
\*   "read"   awaiting file.arrayBuffer()
\*   "resume" parseONNXModelComplete has settled, handleFileUpload not resumed
\*   "done"   handleFileUpload has returned
\* For stating properties a run also records the exception raised inside the
\* try block (NULL if none), the step that raised it or returned, and
\* whether an earlier run was still in flight when it started.
Run(f, pc, outcome, raised, settledAt, overlap) ==
    [file |-> f, pc |-> pc, outcome |-> outcome, raised |-> raised,
     settledAt |-> settledAt, overlap |-> overlap]

\* The run after the try block raised or returned result.
Settle(run, result, step) ==
    Run(run.file, "resume", Catch(result),
        IF Threw(result) THEN result ELSE NULL, step, run.overlap)

InFlight(run) == run.pc # "done"

\* An uncaught error while rendering unmounts the React tree.
Mounted == viewer # "threw"

\* ModelViewer re-rendered with the prop data, and its effect.
Render(data) ==
    LET g == BuildGraph(data)
    IN /\ initialNodes' = g.nodes
       /\ initialEdges' = g.edges
       /\ viewer' = RenderViewer(data)
       /\ IF RenderViewer(data) = "threw"
          THEN UNCHANGED <<flowNodes, flowEdges>>
          ELSE flowNodes' = g.nodes /\ flowEdges' = g.edges

InitApp ==
    /\ runs = <<>>
    /\ modelData = NULL
    /\ isLoading = FALSE
    /\ error = NULL
    /\ initialNodes = sampleNodes
    /\ initialEdges = sampleEdges
    /\ flowNodes = sampleNodes
    /\ flowEdges = sampleEdges
    /\ viewer = "placeholder"

\* ModernCanvas after its useState calls, before its effects.
InitCanvasState ==
    /\ canvasData = NULL
    /\ supplies = 0
    /\ graph = NULL
    /\ scale = ScaleOne
    /\ position = [x |-> 0, y |-> 0]
    /\ timers = 0
    /\ layouts = <<>>
    /\ lastLayout = "none"
    /\ gestures = 0
    /\ unclamped = ScaleOne

\* An upload session: the user picks among SessionFiles, MaxUploads times.
Init ==
    /\ disk = SessionFiles
    /\ quota = MaxUploads
    /\ InitApp
    /\ InitCanvasState
    /\ budget = [supplies |-> MaxSupplies, gestures |-> FewGestures]

\* One upload of one file out of ViewerFiles.
InitViewer ==
    /\ disk \in {{f} : f \in ViewerFiles}
    /\ quota = 1
    /\ InitApp
    /\ InitCanvasState
    /\ budget = [supplies |-> MaxSupplies, gestures |-> FewGestures]

\* The canvas on its own: no upload, the prop values come from its parent.
InitCanvas ==
    /\ disk = {}
    /\ quota = 0
    /\ InitApp
    /\ InitCanvasState
    /\ budget = [supplies |-> MaxSupplies, gestures |-> FewGestures]

(***************************************************************************)
(* App.handleFileUpload and parseONNXModelComplete                         *)
(***************************************************************************)

\* handleFileUpload(file) up to the first await.
Upload(f) ==
    /\ Mounted
    /\ f \in disk
    /\ Len(runs) < quota
    /\ isLoading' = TRUE
    /\ error' = NULL
    /\ runs' = Append(runs, Run(f, "load", NULL, NULL, "",
                                \E r \in 1..Len(runs) : InFlight(runs[r])))
    /\ UNCHANGED <<disk, quota, modelData, viewerVars, canvasVars>>

\* protobuf.load resolved; lookupType; file.arrayBuffer() is awaited.
SchemaLoaded(r) ==
    /\ Mounted
    /\ r \in 1..Len(runs)
    /\ runs[r].pc = "load"
    /\ runs' = [runs EXCEPT ![r].pc = "read"]
    /\ UNCHANGED <<disk, quota, modelData, isLoading, error, viewerVars, canvasVars>>

\* protobuf.load rejected (the schema cannot be fetched or parsed).
SchemaFailed(r) ==
    /\ Mounted
    /\ r \in 1..Len(runs)
    /\ runs[r].pc = "load"
    /\ runs' = [runs EXCEPT ![r] =
                   Settle(@, Throw("schema load failed"), "load")]
    /\ UNCHANGED <<disk, quota, modelData, isLoading, error, viewerVars, canvasVars>>

\* file.arrayBuffer() resolved; decode, toObject and the summary run.
BufferRead(r) ==
    /\ Mounted
    /\ r \in 1..Len(runs)
    /\ runs[r].pc = "read"
    /\ runs' = [runs EXCEPT ![r] =
                   Settle(@, DecodeAndSummarize(@.file), "decode")]
    /\ UNCHANGED <<disk, quota, modelData, isLoading, error, viewerVars, canvasVars>>

\* file.arrayBuffer() rejected (the file can no longer be read).
BufferFailed(r) ==
    /\ Mounted
    /\ r \in 1..Len(runs)
    /\ runs[r].pc = "read"
    /\ runs' = [runs EXCEPT ![r] =
                   Settle(@, Throw("file could not be read"), "read")]
    /\ UNCHANGED <<disk, quota, modelData, isLoading, error, viewerVars, canvasVars>>

FailedToParse == "Failed to parse the ONNX model. Please make sure the file is valid."

\* handleFileUpload after the await: setModelData or setError, then
\* setIsLoading(false); App and ModelViewer re-render.
Resume(r) ==
    /\ Mounted
    /\ r \in 1..Len(runs)
    /\ runs[r].pc = "resume"
    /\ runs' = [runs EXCEPT ![r].pc = "done"]
    /\ IF Threw(runs[r].outcome)
       THEN /\ error' = FailedToParse
            /\ UNCHANGED modelData
       ELSE /\ modelData' = runs[r].outcome
            /\ UNCHANGED error
    /\ isLoading' = FALSE
    /\ Render(modelData')
    /\ UNCHANGED <<disk, quota, canvasVars>>

Next ==
    \/ \E f \in disk : Upload(f)
    \/ \E r \in 1..Len(runs) : SchemaLoaded(r)
    \/ \E r \in 1..Len(runs) : SchemaFailed(r)
    \/ \E r \in 1..Len(runs) : BufferRead(r)
    \/ \E r \in 1..Len(runs) : BufferFailed(r)
    \/ \E r \in 1..Len(runs) : Resume(r)

Spec == Init /\ [][Next]_vars

SpecViewer == InitViewer /\ [][Next]_vars

(***************************************************************************)
(* ModernCanvas: the modelData effect, layout completion, pan and zoom     *)
(***************************************************************************)

\* The values the modelData prop takes: nothing, or what
\* parseONNXModelComplete returns for a file.
CanvasProps == {NULL} \cup {Catch(DecodeAndSummarize(f)) : f \in SessionFiles}

Pointers == {[x |-> 600, y |-> 400]}

DragTargets == {[x |-> -150, y |-> 80]}

Remove(seq, i) == SubSeq(seq, 1, i - 1) \o SubSeq(seq, i + 1, Len(seq))

\* A call of layoutGraph suspended at await elk.layout(...); gen is the
\* number of the prop value it was started for, 0 for the demo data.
Job(gen, data) == [gen |-> gen, root |-> ElkGraph(data)]

\* useEffect(..., [modelData]) for a new prop value m (the first is the mount).
SupplyModel(m) ==
    /\ supplies < budget.supplies
    /\ m \in CanvasProps
    /\ supplies = 0 \/ m # NULL \/ canvasData # NULL
    /\ canvasData' = m
    /\ supplies' = supplies + 1
    /\ lastLayout' = "none"
    /\ IF ~HasGraphNodes(m)
       THEN /\ graph' = NULL
            /\ timers' = timers + 1
            /\ UNCHANGED layouts
       ELSE /\ layouts' = Append(layouts, Job(supplies + 1, m))
            /\ UNCHANGED <<graph, timers>>
    /\ UNCHANGED <<appVars, viewerVars, scale, position, gestures,
                   budget, unclamped>>

\* setTimeout(() => layoutGraph(demoData), 100) fires.
DemoTimer ==
    /\ timers > 0
    /\ timers' = timers - 1
    /\ layouts' = Append(layouts, Job(0, demoData))
    /\ UNCHANGED <<appVars, viewerVars, canvasData, supplies, graph, scale,
                   position, lastLayout, gestures, budget, unclamped>>

Settled(i, how) ==
    IF layouts[i].gen = supplies THEN how ELSE lastLayout

\* elk.layout resolved: setGraph(layoutedGraph).
LayoutResolved(i) ==
    /\ i \in 1..Len(layouts)
    /\ ElkAccepts(layouts[i].root)
    /\ graph' = layouts[i].root
    /\ layouts' = Remove(layouts, i)
    /\ lastLayout' = Settled(i, "resolved")
    /\ UNCHANGED <<appVars, viewerVars, canvasData, supplies, scale, position,
                   timers, gestures, budget, unclamped>>

\* elk.layout rejected: console.error('Layout error:', error).
LayoutRejected(i) ==
    /\ i \in 1..Len(layouts)
    /\ ~ElkAccepts(layouts[i].root)
    /\ layouts' = Remove(layouts, i)
    /\ lastLayout' = Settled(i, "rejected")
    /\ UNCHANGED <<appVars, viewerVars, canvasData, supplies, graph, scale,
                   position, timers, gestures, budget, unclamped>>

Min(a, b) == IF a < b THEN a ELSE b
Max(a, b) == IF a > b THEN a ELSE b

\* a * num / den, rounded to the nearest thousandth
Times(a, num, den) == (2 * a * num + den) \div (2 * den)

\* Math.max(0.1, Math.min(3, newScale))
Clamp(newScale) == Max(ScaleMin, Min(ScaleMax, newScale))

\* The stage and the buttons exist only while a graph is displayed.
CanGesture == graph # NULL /\ gestures < budget.gestures

\* handleWheel: zoom about the pointer p; stage.scaleX() is the scale prop.
\* -(mousePointTo.x - p.x / clamped) * clamped = p.x - (p.x - x) * clamped / old
handleWheel(deltaYPositive, p) ==
    LET oldScale == scale
        newScale == IF deltaYPositive THEN Times(oldScale, 10, 11)
                    ELSE Times(oldScale, 11, 10)
        clampedScale == Clamp(newScale)
    IN /\ CanGesture
       /\ p \in Pointers
       /\ scale' = clampedScale
       /\ unclamped' = newScale
       /\ position' =
            [x |-> p.x - ((p.x - position.x) * clampedScale) \div oldScale,
             y |-> p.y - ((p.y - position.y) * clampedScale) \div oldScale]
       /\ gestures' = gestures + 1
       /\ UNCHANGED <<appVars, viewerVars, canvasData, supplies, graph, timers,
                      layouts, lastLayout, budget>>

\* Zoom In: setScale(Math.min(3, scale * 1.2))
ZoomIn ==
    /\ CanGesture
    /\ scale' = Min(ScaleMax, Times(scale, 12, 10))
    /\ unclamped' = Times(scale, 12, 10)
    /\ gestures' = gestures + 1
    /\ UNCHANGED <<appVars, viewerVars, canvasData, supplies, graph, position,
                   timers, layouts, lastLayout, budget>>

\* Zoom Out without Math.max.
ZoomOutUnclamped ==
    /\ CanGesture
    /\ scale' = Times(scale, 10, 12)
    /\ unclamped' = Times(scale, 10, 12)
    /\ gestures' = gestures + 1
    /\ UNCHANGED <<appVars, viewerVars, canvasData, supplies, graph, position,
                   timers, layouts, lastLayout, budget>>

\* Zoom Out: setScale(Math.max(0.1, scale / 1.2))
ZoomOut ==
    /\ CanGesture
    /\ scale' = Max(ScaleMin, Times(scale, 10, 12))
    /\ unclamped' = Times(scale, 10, 12)
    /\ gestures' = gestures + 1
    /\ UNCHANGED <<appVars, viewerVars, canvasData, supplies, graph, position,
                   timers, layouts, lastLayout, budget>>

\* Reset View: setScale(1); setPosition({ x: 0, y: 0 })
ResetView ==
    /\ CanGesture
    /\ scale' = ScaleOne
    /\ unclamped' = ScaleOne
    /\ position' = [x |-> 0, y |-> 0]
    /\ gestures' = gestures + 1
    /\ UNCHANGED <<appVars, viewerVars, canvasData, supplies, graph, timers,
                   layouts, lastLayout, budget>>

\* onDragEnd: setPosition({ x: e.target.x(), y: e.target.y() })
DragEnd(p) ==
    /\ CanGesture
    /\ p \in DragTargets
    /\ position' = p
    /\ gestures' = gestures + 1
    /\ UNCHANGED <<appVars, viewerVars, canvasData, supplies, graph, scale,
                   timers, layouts, lastLayout, budget, unclamped>>

NextCanvas ==
    \/ \E m \in CanvasProps : SupplyModel(m)
    \/ DemoTimer
    \/ \E i \in 1..Len(layouts) : LayoutResolved(i)
    \/ \E i \in 1..Len(layouts) : LayoutRejected(i)
    \/ \E d \in BOOLEAN, p \in Pointers : handleWheel(d, p)
    \/ ZoomIn
    \/ ZoomOut
    \/ ResetView
    \/ \E p \in DragTargets : DragEnd(p)

SpecCanvas == InitCanvas /\ [][NextCanvas]_vars

\* The canvas given one prop value, then panned and zoomed.
InitZoom ==
    /\ disk = {}
    /\ quota = 0
    /\ InitApp
    /\ InitCanvasState
    /\ budget = [supplies |-> 1, gestures |-> MaxGestures]

SpecZoom == InitZoom /\ [][NextCanvas]_vars

(***************************************************************************)
(* Properties                                                              *)
(***************************************************************************)

AllDone == \A r \in 1..Len(runs) : runs[r].pc = "done"

\* C1: if an upload is started while an earlier one is still being parsed,
\* then once every started upload has completed, modelData is the result of
\* the upload started last.
C1_LatestUploadWins ==
    (Len(runs) >= 2 /\ runs[Len(runs)].overlap /\ AllDone)
        => modelData = runs[Len(runs)].outcome

\* The decoder rejected the bytes of run r and handleFileUpload has returned.
DecodeFailed(r) ==
    /\ runs[r].pc = "done"
    /\ runs[r].settledAt = "decode"
    /\ runs[r].file.proto = CORRUPT

\* C2: after handleFileUpload completes for a file the decoder rejects, App
\* shows the failed-to-parse state (error is set), ModelViewer has not run
\* the graph builder on that run's result, and its render has not thrown.
C2_DecodeFailureReported ==
    (Len(runs) > 0 /\ DecodeFailed(Len(runs)))
        => /\ error # NULL
           /\ viewer # "threw"
           /\ modelData # runs[Len(runs)].outcome

SuccessShape(o) ==
    /\ o.parsingMethod = "runtime-load"
    /\ "error" \notin DOMAIN o

FailureShape(o) ==
    /\ DOMAIN o = {"error", "parsingMethod"}
    /\ o.parsingMethod = "fallback"
    /\ o.error # ""

\* C3: parseONNXModelComplete never settles with an exception; when schema
\* loading, reading, decoding or summarizing raised, it returned the failure
\* shape carrying the message, and otherwise the success shape.
C3_NoExceptionEscapes ==
    \A r \in 1..Len(runs) :
        runs[r].outcome # NULL =>
            /\ ~Threw(runs[r].outcome)
            /\ IF runs[r].raised # NULL
               THEN /\ FailureShape(runs[r].outcome)
                    /\ runs[r].outcome.error = runs[r].raised.thrown
               ELSE SuccessShape(runs[r].outcome)

\* C3 witness: the summary raised on a decodable file and the run returned.
C3_Witness ==
    \E r \in 1..Len(runs) :
        /\ runs[r].pc = "done"
        /\ runs[r].settledAt = "decode"
        /\ runs[r].file.proto # CORRUPT
        /\ runs[r].raised # NULL
        /\ runs[r].outcome.parsingMethod = "fallback"

\* C4: once the layout started for the current modelData has failed, the
\* canvas holds no graph.
C4_FailedLayoutShowsNoGraph ==
    lastLayout = "rejected" => graph = NULL

NodeIds == {initialNodes[i].id : i \in 1..Len(initialNodes)}

\* C5: every edge of the graph builder starts and ends at the id of a node
\* built in the same run.
C5_NoDanglingEdges ==
    \A i \in 1..Len(initialEdges) :
        /\ initialEdges[i].source \in NodeIds
        /\ initialEdges[i].target \in NodeIds

\* C5 witness: the builder ran on two operators and emitted edges, one of
\* them from a tensor the other operator lists among its outputs.
C5_Witness ==
    /\ HasGraphNodes(modelData)
    /\ viewer = "rendered"
    /\ Len(modelData.graph.nodes) = 2
    /\ Len(initialEdges) >= 2
    /\ \E j \in 1..Len(modelData.graph.nodes[2].input),
          k \in 1..Len(modelData.graph.nodes[1].output) :
          modelData.graph.nodes[2].input[j] = modelData.graph.nodes[1].output[k]

\* The RawNodes the builder ran on, when it ran.
Built == HasGraphNodes(modelData) /\ viewer = "rendered"
rawNodes == modelData.graph.nodes

\* The id of the operator node built for rawNodes[i]: the operator pass
\* appends one node per RawNode after the input nodes.
OperatorNodeId(i) == initialNodes[Len(initialNodes) - Len(rawNodes) + i].id

RECURSIVE InputsBefore(_)
InputsBefore(c) ==
    IF c = 1 THEN 0 ELSE InputsBefore(c - 1) + Len(rawNodes[c - 1].input)

\* The edge emitted for entry j of the input list of rawNodes[c].
EdgeInto(c, j) == initialEdges[InputsBefore(c) + j]

\* Operator c consumes as input j a tensor that operator p lists as output k.
Produces(p, k, c, j) ==
    /\ p \in 1..Len(rawNodes) /\ c \in 1..Len(rawNodes) /\ p # c
    /\ k \in 1..Len(rawNodes[p].output)
    /\ j \in 1..Len(rawNodes[c].input)
    /\ rawNodes[c].input[j] = rawNodes[p].output[k]

\* C6 as claimed: a tensor in the input list of one operator and in the
\* output list of another enters its consumer by an edge whose source is the
\* id of the producing operator node.
C6_AnyOutputIdentity ==
    Built =>
        \A p \in 1..Len(rawNodes), c \in 1..Len(rawNodes) :
            \A k \in 1..Len(rawNodes[p].output), j \in 1..Len(rawNodes[c].input) :
                Produces(p, k, c, j) => EdgeInto(c, j).source = OperatorNodeId(p)

\* C6 amended: a tensor with a non-empty name that is in the input list of
\* one operator and is the first output of another enters its consumer by an
\* edge whose source is the id of the producing operator node.
C6_FirstOutputIdentity ==
    Built =>
        \A p \in 1..Len(rawNodes), c \in 1..Len(rawNodes) :
            \A j \in 1..Len(rawNodes[c].input) :
                (Produces(p, 1, c, j) /\ rawNodes[p].output[1] # "")
                    => /\ EdgeInto(c, j).source = OperatorNodeId(p)
                       /\ EdgeInto(c, j).target = OperatorNodeId(c)

\* C6 witness: a named producer hands its first output to a consumer.
C6_Witness ==
    /\ Built
    /\ \E p \in 1..Len(rawNodes), c \in 1..Len(rawNodes) :
          \E j \in 1..Len(rawNodes[c].input) :
              /\ Produces(p, 1, c, j)
              /\ rawNodes[p].output[1] # ""
              /\ rawNodes[p].name # ""
              /\ EdgeInto(c, j).source = OperatorNodeId(p)

\* C7: no two edges of the builder have the same (source, target) key, and
\* so none share an edge id.
C7_OneEdgePerPair ==
    Built =>
        \A i \in 1..Len(initialEdges), j \in 1..Len(initialEdges) :
            i # j => /\ <<initialEdges[i].source, initialEdges[i].target>> #
                        <<initialEdges[j].source, initialEdges[j].target>>
                     /\ initialEdges[i].id # initialEdges[j].id

ZeroOperators(proto) ==
    /\ proto # CORRUPT
    /\ proto.graph = NULL \/ Len(proto.graph.node) = 0

\* C8: a decoded model without operator nodes parses to the success shape
\* with totalNodes 0, an empty operatorFrequency and complexity "Low", and
\* the builder yields no nodes and no edges for it.
C8_ZeroNodesValid ==
    \A r \in 1..Len(runs) :
        (runs[r].settledAt = "decode" /\ ZeroOperators(runs[r].file.proto))
            => /\ SuccessShape(runs[r].outcome)
               /\ runs[r].outcome.analysis.totalNodes = 0
               /\ runs[r].outcome.analysis.operatorFrequency = EmptyObject
               /\ runs[r].outcome.analysis.modelComplexity = "Low"
               /\ (runs[r].pc = "done" /\ modelData = runs[r].outcome)
                      => initialNodes = <<>> /\ initialEdges = <<>>

\* C9: the canvas scale stays within [0.1, 3], and a zoom step whose result
\* leaves the range ends at the nearer bound.
C9_ScaleClamped ==
    /\ ScaleMin <= scale /\ scale <= ScaleMax
    /\ unclamped > ScaleMax => scale = ScaleMax
    /\ unclamped < ScaleMin => scale = ScaleMin
    /\ (ScaleMin <= unclamped /\ unclamped <= ScaleMax) => scale = unclamped

\* C9 witness: a zoom step computed less than 0.1 and the scale is 0.1.
C9_Witness ==
    /\ gestures > 0
    /\ unclamped < ScaleMin
    /\ scale = ScaleMin

Occurrences(op) ==
    Cardinality({i \in 1..Len(rawNodes) : rawNodes[i].opType = op})

\* C10: when every operator node has an opType, operatorFrequency has an
\* entry exactly for the opType values that occur, each is the number of
\* occurrences, and so the counts add up to totalNodes.
C10_HistogramCorrect ==
    (Built /\ \A i \in 1..Len(rawNodes) : rawNodes[i].opType # "")
        => LET freq == modelData.analysis.operatorFrequency
           IN /\ DOMAIN freq = {rawNodes[i].opType : i \in 1..Len(rawNodes)}
              /\ \A op \in DOMAIN freq : freq[op] = Num(Occurrences(op))
              /\ modelData.analysis.totalNodes = Len(rawNodes)

\* C11: once no layout is pending and no demo timer is armed, and the layout
\* started for the current modelData has succeeded, the graph on display is
\* that layout.
C11_LatestLayoutShown ==
    (layouts = <<>> /\ timers = 0 /\ HasGraphNodes(canvasData)
        /\ lastLayout = "resolved")
        => graph = ElkGraph(canvasData)

\* C12: the ids of the nodes the graph builder produced are pairwise
\* distinct.
C12_NodeIdsDistinct ==
    Built =>
        \A i \in 1..Len(initialNodes), j \in 1..Len(initialNodes) :
            i # j => initialNodes[i].id # initialNodes[j].id

\* C13: in every graph layoutGraph hands to elk.layout, the source and the
\* target of every edge are ids of children handed over with it.
C13_ElkGraphWellFormed ==
    \A i \in 1..Len(layouts) :
        \A e \in 1..Len(layouts[i].root.edges) :
            /\ layouts[i].root.edges[e].sources[1] \in ChildIds(layouts[i].root)
            /\ layouts[i].root.edges[e].targets[1] \in ChildIds(layouts[i].root)

\* C14: while the page is up, isLoading is true exactly when some started
\* upload has not finished.
C14_LoadingWhileInFlight ==
    Mounted => (isLoading <=> \E r \in 1..Len(runs) : InFlight(runs[r]))

====
